---------------------------- MODULE Spec2Model ----------------------------
(***************************************************************************)
(* A model of gridfill: fill (lib/gridfill/gridfill.py) and its cube       *)
(* adapter fill_cube, with the layout transform _order_dims / _prep_data / *)
(* _recover_data and the relaxation kernel _poisson_fill_grids.            *)
(*                                                                         *)
(* Arrays are records [shape, data]: shape is the sequence of axis sizes   *)
(* and data the elements in logical row-major (C) order, which is the      *)
(* order numpy's reshape reads and writes.  Axis numbers are 0-based as in *)
(* the source; TLA+ sequences are 1-based, so axis a is shape[a + 1].      *)
(* Floating-point values are modelled as integers (fixed-point units).     *)
(* range(n) is a list, as in the Python 2 the module was written for.      *)
(* verbose only prints and is left out.  The kernel's code is not part of  *)
(* the sources; it is modelled from the specification's sections 4.2-4.4.  *)
(***************************************************************************)
EXTENDS Integers, Sequences, FiniteSets, TLC

\* ------------------------------------------------------------------ bounds
\* Largest rank and largest axis size of the arrays the layout transform is
\* applied to on its own.
MaxRank == 3
MaxDim == 2

\* ------------------------------------------------------ numpy array helpers
\* The function f on 1..n as a tuple of its n values.
AsTuple(f, n) ==
    SubSeq(f, 1, n)

RECURSIVE Prod(_)
\* np.prod of a tuple of sizes; the product of the empty tuple is 1.
Prod(s) ==
    IF s = << >> THEN 1 ELSE Head(s) * Prod(Tail(s))

\* The row-major offset of the multi-index idx in an array of shape shp.
RECURSIVE Ravel(_, _)
Ravel(idx, shp) ==
    IF idx = << >> THEN 0
    ELSE Head(idx) * Prod(Tail(shp)) + Ravel(Tail(idx), Tail(shp))

\* The multi-index of the row-major offset n in an array of shape shp.
Unravel(n, shp) ==
    AsTuple([i \in 1..Len(shp) |->
                (n \div Prod(SubSeq(shp, i + 1, Len(shp)))) % shp[i]], Len(shp))

\* The position (0-based) of value v in list s: list.index.
IndexOf(s, v) ==
    (CHOOSE i \in 1..Len(s) : s[i] = v /\ \A j \in 1..(i - 1) : s[j] # v) - 1

\* list.remove(v): the list without the first occurrence of v.
ListRemove(s, v) ==
    LET i == IndexOf(s, v) + 1
    IN  SubSeq(s, 1, i - 1) \o SubSeq(s, i + 1, Len(s))

\* a.transpose(axes) on the elements: the element at multi-index J of the
\* result is the element of the operand whose index along axis axes[j] is J[j].
TransposeSeq(data, shp, axes) ==
    LET newshape == AsTuple([j \in 1..Len(shp) |-> shp[axes[j] + 1]], Len(shp))
    IN  AsTuple([n \in 1..Len(data) |->
                    LET J == Unravel(n - 1, newshape)
                        I == AsTuple([i \in 1..Len(shp) |->
                                        J[IndexOf(axes, i - 1) + 1]], Len(shp))
                    IN  data[Ravel(I, shp) + 1]], Len(data))

\* a.transpose(axes): shape, data and (for a masked array) the mask follow.
Transpose(a, axes) ==
    [a EXCEPT !.shape = AsTuple([j \in 1..Len(a.shape) |-> a.shape[axes[j] + 1]],
                                Len(a.shape)),
              !.data = TransposeSeq(a.data, a.shape, axes),
              !.mask = TransposeSeq(a.mask, a.shape, axes)]

\* A mutant of RollAxis: the axis is swapped with axis 0 instead of rolled.
RollAxisSwap(a, axis) ==
    Transpose(a, AsTuple([j \in 1..Len(a.shape) |->
                            IF j = 1 THEN axis ELSE IF j = axis + 1 THEN 0 ELSE j - 1],
                         Len(a.shape)))

\* np.rollaxis(a, axis): axis is moved to position 0, the others keep their
\* relative order.
RollAxis(a, axis) ==
    Transpose(a, <<axis>> \o ListRemove(AsTuple([j \in 1..Len(a.shape) |-> j - 1],
                                                Len(a.shape)), axis))

\* a.reshape(shp): the row-major element order is kept.
Reshape(a, shp) ==
    [a EXCEPT !.shape = shp]

\* ------------------------------------------------------- layout transform
\* A mutant of OrderDims: ypos is not shifted after the x axis was rolled.
OrderDimsNoShift(grid, xpos, ypos) ==
    LET ndim == Len(grid.shape)
        range == AsTuple([j \in 1..ndim |-> j - 1], ndim)
    IN  IF xpos \notin 0..(ndim - 1) \/ ypos \notin 0..(ndim - 1) \/ xpos = ypos
        THEN [error |-> "ValueError", grid |-> grid, outorder |-> << >>]
        ELSE [error |-> "none",
              grid |-> RollAxis(RollAxis(grid, xpos), ypos),
              outorder |-> <<ypos, xpos>> \o ListRemove(ListRemove(range, xpos), ypos)]

\* A mutant of OrderDims: both positions are looked up in the full list, so
\* equal positions pass.
OrderDimsNoEqualCheck(grid, xpos, ypos) ==
    LET ndim == Len(grid.shape)
        range == AsTuple([j \in 1..ndim |-> j - 1], ndim)
    IN  IF xpos \notin 0..(ndim - 1) \/ ypos \notin 0..(ndim - 1)
        THEN [error |-> "ValueError", grid |-> grid, outorder |-> << >>]
        ELSE [error |-> "none",
              grid |-> RollAxis(RollAxis(grid, xpos),
                                IF ypos < xpos THEN ypos + 1 ELSE ypos),
              outorder |-> <<ypos, xpos>>
                           \o SelectSeq(range, LAMBDA d : d # xpos /\ d # ypos)]

\* _order_dims: ValueError when list.remove does not find xpos, or ypos once
\* xpos is removed; otherwise the y axis first, the x axis second.
OrderDims(grid, xpos, ypos) ==
    LET ndim == Len(grid.shape)
        range == AsTuple([j \in 1..ndim |-> j - 1], ndim)
        inx == \E j \in 1..ndim : range[j] = xpos
        rest == IF inx THEN ListRemove(range, xpos) ELSE range
        iny == \E j \in 1..Len(rest) : rest[j] = ypos
    IN  IF ~inx \/ ~iny
        THEN [error |-> "ValueError", grid |-> grid, outorder |-> << >>]
        ELSE LET rolled == RollAxis(grid, xpos)
                 ypos2 == IF ypos < xpos THEN ypos + 1 ELSE ypos
             IN  [error |-> "none",
                  grid |-> RollAxis(rolled, ypos2),
                  outorder |-> <<ypos, xpos>> \o ListRemove(rest, ypos)]

\* _prep_data: the ordered grid reshaped to (rows, columns, batch), with the
\* metadata that inverts it.  astype(float64) leaves every value as it is.
PrepData(grid, xdim, ydim) ==
    LET od == OrderDims(grid, xdim, ydim)
        intshape == od.grid.shape
    IN  IF od.error # "none"
        THEN [error |-> od.error, grid |-> grid, info |-> << >>]
        ELSE [error |-> "none",
              grid |-> Reshape(od.grid, SubSeq(intshape, 1, 2)
                                   \o <<Prod(SubSeq(intshape, 3, Len(intshape)))>>),
              info |-> [intshape |-> intshape, intorder |-> od.outorder,
                        origndim |-> Len(grid.shape)]]

\* The loop of _recover_data: roll axis rolldims[i], then shift the pending
\* positions below it by one.
RECURSIVE RecoverLoop(_, _, _)
RecoverLoop(grid, rolldims, i) ==
    IF i > Len(rolldims) THEN grid
    ELSE RecoverLoop(RollAxis(grid, rolldims[i]),
                     AsTuple([k \in 1..Len(rolldims) |->
                                IF rolldims[k] < rolldims[i] THEN rolldims[k] + 1
                                ELSE rolldims[k]], Len(rolldims)),
                     i + 1)

\* A mutant of RecoverData: the axes are rolled in ascending order.
RecoverDataAscending(grid, info) ==
    RecoverLoop(Reshape(grid, info.intshape),
                AsTuple([k \in 1..info.origndim |-> IndexOf(info.intorder, k - 1)],
                        info.origndim), 1)

\* _recover_data: back to the intermediate shape, then the original axes are
\* rolled to the front from the last to the first.
RecoverData(grid, info) ==
    RecoverLoop(Reshape(grid, info.intshape),
                AsTuple([k \in 1..info.origndim |->
                            IndexOf(info.intorder, info.origndim - k)],
                        info.origndim), 1)

\* ------------------------------------------------ sentinel substitution
\* fill_value of fill: the value written over the masked cells (1.e20 in the
\* source; here a value no relaxation of the data values can produce).
fill_value == 1000

\* The default of fill's and fill_cube's relax argument, in tenths (.6).
RelaxDefault == 6

\* A mutant of Filled: the masked cells keep their data.
FilledKeepsData(g, fv) ==
    [masked |-> FALSE, shape |-> g.shape, data |-> g.data,
     mask |-> AsTuple([n \in 1..Len(g.data) |-> FALSE], Len(g.data))]

\* MaskedArray.filled(fill_value): a plain array holding fv where the mask is
\* set and the data elsewhere.  (A plain ndarray has no such method.)
Filled(g, fv) ==
    [masked |-> FALSE, shape |-> g.shape,
     data |-> AsTuple([n \in 1..Len(g.data) |->
                          IF g.mask[n] THEN fv ELSE g.data[n]], Len(g.data)),
     mask |-> AsTuple([n \in 1..Len(g.data) |-> FALSE], Len(g.data))]

\* --------------------------------------------------- relaxation kernel
\* _poisson_fill_grids works on the (rows, columns, batch) buffer; cell
\* (r, c) of slice k is element Cell(shp, r, c, k) of the row-major data.
Cell(shp, r, c, k) ==
    Ravel(<<r, c, k>>, shp) + 1

\* The slice an element of the buffer belongs to.
SliceOf(shp, n) ==
    Unravel(n - 1, shp)[3]

\* Mask extraction: the cells holding the missing-value sentinel.
MissingCells(data, missingValue) ==
    {n \in 1..Len(data) : data[n] = missingValue}

RECURSIVE SumSeq(_)
SumSeq(s) ==
    IF s = << >> THEN 0 ELSE Head(s) + SumSeq(Tail(s))

RECURSIVE RowKnown(_, _, _, _, _, _)
\* The non-missing values of row r of slice k, from column c on.
RowKnown(data, miss, shp, r, k, c) ==
    IF c >= shp[2] THEN << >>
    ELSE (IF Cell(shp, r, c, k) \in miss THEN << >>
          ELSE <<data[Cell(shp, r, c, k)]>>)
         \o RowKnown(data, miss, shp, r, k, c + 1)

\* The zonal mean of a row: the mean of its non-missing values, 0 when it
\* has none.
ZonalMean(data, miss, shp, r, k) ==
    LET known == RowKnown(data, miss, shp, r, k, 0)
    IN  IF known = << >> THEN 0 ELSE SumSeq(known) \div Len(known)

\* Initializer: every missing cell is seeded with 0, or with its row's zonal
\* mean when initzonal is set.
Seed(data, miss, shp, initzonal) ==
    AsTuple([n \in 1..Len(data) |->
                IF n \notin miss THEN data[n]
                ELSE IF initzonal
                     THEN ZonalMean(data, miss, shp, Unravel(n - 1, shp)[1],
                                    Unravel(n - 1, shp)[3])
                     ELSE 0], Len(data))

\* The values of the in-range neighbours of cell (r, c) of slice k: rows are
\* never cyclic; columns wrap when cyclic is set.
Neighbours(data, shp, r, c, k, cyclic) ==
    (IF r - 1 >= 0 THEN <<data[Cell(shp, r - 1, c, k)]>> ELSE << >>)
    \o (IF r + 1 < shp[1] THEN <<data[Cell(shp, r + 1, c, k)]>> ELSE << >>)
    \o (IF cyclic THEN <<data[Cell(shp, r, (c - 1) % shp[2], k)]>>
        ELSE IF c - 1 >= 0 THEN <<data[Cell(shp, r, c - 1, k)]>> ELSE << >>)
    \o (IF cyclic THEN <<data[Cell(shp, r, (c + 1) % shp[2], k)]>>
        ELSE IF c + 1 < shp[2] THEN <<data[Cell(shp, r, c + 1, k)]>> ELSE << >>)

\* relax * d with relax in tenths, rounded toward zero.
Scaled(relax, d) ==
    IF d >= 0 THEN (relax * d) \div 10 ELSE 0 - ((relax * (0 - d)) \div 10)

Abs(x) ==
    IF x >= 0 THEN x ELSE 0 - x

RECURSIVE SweepFrom(_, _, _, _, _, _, _, _)
\* One sweep of slice k from raster position p on: each missing cell moves
\* toward the average of its neighbours' current values; res is the largest
\* change so far.
SweepFrom(data, miss, shp, k, p, res, relax, cyclic) ==
    IF p >= shp[1] * shp[2] THEN [data |-> data, resmax |-> res]
    ELSE LET r == p \div shp[2]
             c == p % shp[2]
             n == Cell(shp, r, c, k)
             nb == Neighbours(data, shp, r, c, k, cyclic)
             step == IF n \notin miss \/ nb = << >> THEN 0
                     ELSE Scaled(relax, (SumSeq(nb) \div Len(nb)) - data[n])
             res2 == IF Abs(step) > res THEN Abs(step) ELSE res
         IN  SweepFrom([data EXCEPT ![n] = data[n] + step], miss, shp, k,
                       p + 1, res2, relax, cyclic)

\* The record of a slice before its first sweep: a slice without missing
\* cells has converged at once, with no iteration and a residual of 0.
SliceStart(miss, shp, k) ==
    [state |-> IF \E n \in miss : SliceOf(shp, n) = k THEN "RUNNING"
               ELSE "CONVERGED",
     niter |-> 0, resmax |-> 0]

\* SliceAfter with the cap tested one sweep late.
SliceAfterLate(rec, res, eps, itermax) ==
    [state |-> IF res <= eps THEN "CONVERGED"
               ELSE IF rec.niter + 1 > itermax THEN "EXHAUSTED"
               ELSE "RUNNING",
     niter |-> rec.niter + 1, resmax |-> res]

\* The record of a slice after one more sweep with maximum residual res.
SliceAfter(rec, res, eps, itermax) ==
    [state |-> IF res <= eps THEN "CONVERGED"
               ELSE IF rec.niter + 1 >= itermax THEN "EXHAUSTED"
               ELSE "RUNNING",
     niter |-> rec.niter + 1, resmax |-> res]

\* ------------------------------------------------------------ fill
\* A mutant of HasFilled: every array is taken to be a masked array.
HasFilledAlways(g) ==
    TRUE

\* grids.filled exists on a masked array only; on a plain ndarray the
\* attribute lookup fails and fill raises TypeError.
HasFilled(g) ==
    g.masked

\* A mutant of Converged: a residual equal to eps does not count.
ConvergedStrict(res, eps) ==
    res < eps

\* A mutant of Converged: the flag reports that the cap was not hit.
ConvergedAlways(res, eps) ==
    TRUE

\* converged = np.logical_not(resmax > eps), for one slice.
Converged(res, eps) ==
    ~(res > eps)

\* ------------------------------------------------------- fill_cube
\* A mutant of NotConverged: the flags are passed on as they are.
NotConvergedSame(cnv) ==
    cnv

\* not_converged = np.logical_not(cnv).
NotConverged(cnv) ==
    AsTuple([k \in 1..Len(cnv) |-> ~cnv[k]], Len(cnv))

\* A mutant of Warnings: the message counts the slices that converged.
WarningsCountConverged(nc) ==
    IF \E k \in 1..Len(nc) : nc[k]
    THEN <<[failed |-> Cardinality({k \in 1..Len(nc) : ~nc[k]}), total |-> Len(nc)]>>
    ELSE << >>

\* The warnings fill_cube emits: "gridfill did not converge on {} out of {}
\* slices" with not_converged.sum() and not_converged.size, when any is set.
Warnings(nc) ==
    IF \E k \in 1..Len(nc) : nc[k]
    THEN <<[failed |-> Cardinality({k \in 1..Len(nc) : nc[k]}), total |-> Len(nc)]>>
    ELSE << >>

\* A mutant of ReturnedCube: the copy is made whatever inplace says.
ReturnedCubeCopies(inplace, filled) ==
    [object |-> "copy", data |-> filled]

\* retcube: the source cube itself when inplace, else cube.copy(data=...).
ReturnedCube(inplace, filled) ==
    [object |-> IF inplace THEN "source" ELSE "copy", data |-> filled]

\* fill_cube's return value: (retcube, not_converged) when full_output, else
\* retcube alone.
ReturnValue(full_output, retcube, nc) ==
    IF full_output
    THEN [cube |-> retcube, pair |-> TRUE, not_converged |-> nc]
    ELSE [cube |-> retcube, pair |-> FALSE, not_converged |-> << >>]

\* ------------------------------------------------------------ inputs
\* The shapes of the grids fill is called with.
GridShapes ==
    {<<2, 2>>, <<1, 3>>, <<2, 1, 2>>}

\* Bounds: the most cells masked in an input, and the largest itermax.
MaxMasked == 2
MaxIter == 2

\* Tolerances and relaxation constants (tenths) the callers pass.  A
\* tolerance is not negative and itermax is at least 1: the kernel's
\* behaviour outside that is not described.
EpsValues ==
    {0, 15}

RelaxValues ==
    {RelaxDefault, 10}

\* The data of an input with ncells cells: distinct values, and optionally the
\* value 1.e20 itself in the first cell.
DataOf(ncells, sentinel) ==
    AsTuple([n \in 1..ncells |-> IF sentinel /\ n = 1 THEN fill_value ELSE 10 * n],
            ncells)

NoMask(ncells) ==
    AsTuple([n \in 1..ncells |-> FALSE], ncells)

Masks(ncells) ==
    {m \in [1..ncells -> BOOLEAN] : Cardinality({n \in 1..ncells : m[n]}) <= MaxMasked}

\* numpy.ma.MaskedArray and numpy.ndarray inputs of a shape.
MaskedArrays(shp, sentinels) ==
    {[masked |-> TRUE, shape |-> shp, data |-> DataOf(Prod(shp), s), mask |-> m] :
        s \in sentinels, m \in Masks(Prod(shp))}

PlainArrays(shp, sentinels) ==
    {[masked |-> FALSE, shape |-> shp, data |-> DataOf(Prod(shp), s),
      mask |-> NoMask(Prod(shp))] : s \in sentinels}

\* The arrays fill is called with, and the data of the cubes fill_cube is
\* called with.
Arrays(shp) ==
    MaskedArrays(shp, BOOLEAN) \cup PlainArrays(shp, BOOLEAN)

CubeData(shp) ==
    MaskedArrays(shp, {FALSE}) \cup PlainArrays(shp, {FALSE})

\* Shapes that leave two non-spatial axes, so that the order in which the
\* batch axis enumerates them shows.
BatchShapes ==
    {<<2, 2, 2, 2>>, <<2, 3, 1, 2>>}

\* The arrays the layout transform is applied to on its own: every shape of
\* rank 2..MaxRank with sizes 1..MaxDim and the shapes of BatchShapes, each
\* element its own row-major position.
LayoutArrays ==
    UNION {{[masked |-> FALSE, shape |-> AsTuple(shp, rank),
             data |-> AsTuple([n \in 1..Prod(shp) |-> n], Prod(shp)),
             mask |-> NoMask(Prod(shp))] : shp \in [1..rank -> 1..MaxDim]} :
           rank \in 2..MaxRank}
    \cup {[masked |-> FALSE, shape |-> shp,
           data |-> AsTuple([n \in 1..Prod(shp) |-> n], Prod(shp)),
           mask |-> NoMask(Prod(shp))] : shp \in BatchShapes}

\* Axis numbers a caller may pass for an array of rank ndim, valid or not.
AxisArgs(ndim) ==
    (0 - 1)..ndim

NoArray ==
    [masked |-> FALSE, shape |-> << >>, data |-> << >>, mask |-> << >>]

NoArgs ==
    [xdim |-> 0, ydim |-> 0, eps |-> 0, relax |-> RelaxDefault, itermax |-> 1,
     initzonal |-> FALSE, cyclic |-> FALSE]

NoCube ==
    [data |-> NoArray, xdim |-> 0, ydim |-> 0, circular |-> FALSE]

NoCubeArgs ==
    [eps |-> 0, relax |-> RelaxDefault, itermax |-> 1, initzonal |-> FALSE,
     full_output |-> FALSE, inplace |-> FALSE]

NoReturn ==
    [cube |-> [object |-> "none", data |-> NoArray], pair |-> FALSE,
     not_converged |-> << >>]

NoLayout ==
    [stage |-> "none", grid |-> NoArray, xdim |-> 0, ydim |-> 0,
     prep |-> NoArray, info |-> << >>, rec |-> NoArray, error |-> "none"]

\* ------------------------------------------------------------- state
VARIABLES
    pc,          \* "idle", "relaxing", "returned" or "raised": where fill is
    entry,       \* "none", "fill" or "fill_cube": what the caller called
    grids,       \* fill's grids argument as the caller passed it
    args,        \* fill's other arguments
    info,        \* the metadata _prep_data returned
    work,        \* the kernel's (rows, columns, batch) buffer
    missing,     \* the cells of work the kernel treats as missing
    slices,      \* per slice: state, niter, resmax
    kernelCalls, \* how often _poisson_fill_grids was invoked
    fgrids,      \* fill's first return value
    converged,   \* fill's second return value
    error,       \* "none", "ValueError" or "TypeError"
    cube,        \* the cube fill_cube was called with, as it was then
    cubeArgs,    \* fill_cube's other arguments
    source,      \* the source cube's data now
    ret,         \* fill_cube's return value
    warnings,    \* the warnings emitted
    lay          \* the layout transform applied on its own

vars ==
    <<pc, entry, grids, args, info, work, missing, slices, kernelCalls, fgrids,
      converged, error, cube, cubeArgs, source, ret, warnings, lay>>

fillVars ==
    <<pc, entry, grids, args, info, work, missing, slices, kernelCalls, fgrids,
      converged, error>>

cubeVars ==
    <<cube, cubeArgs, source, ret, warnings>>

Init ==
    /\ pc = "idle"
    /\ entry = "none"
    /\ grids = NoArray
    /\ args = NoArgs
    /\ info = << >>
    /\ work = NoArray
    /\ missing = {}
    /\ slices = << >>
    /\ kernelCalls = 0
    /\ fgrids = NoArray
    /\ converged = << >>
    /\ error = "none"
    /\ cube = NoCube
    /\ cubeArgs = NoCubeArgs
    /\ source = NoArray
    /\ ret = NoReturn
    /\ warnings = << >>
    /\ lay = NoLayout

\* The kernel's entry on the sentinel-filled buffer f: mask extraction, the
\* initializer, and a record per slice.
KernelEntry(f, missingValue, initzonal) ==
    LET miss == MissingCells(f.data, missingValue)
    IN  [missing |-> miss,
         work |-> [f EXCEPT !.data = Seed(f.data, miss, f.shape, initzonal)],
         slices |-> AsTuple([k \in 1..f.shape[3] |->
                                SliceStart(miss, f.shape, k - 1)], f.shape[3])]

\* fill's body down to the call of the kernel: _prep_data first, then
\* filled, then the kernel is entered.
FillBody(g, a) ==
    LET pd == PrepData(g, a.xdim, a.ydim)
    IN  IF pd.error # "none"
        THEN [error |-> pd.error, info |-> << >>, calls |-> 0,
              kernel |-> [missing |-> {}, work |-> NoArray, slices |-> << >>]]
        ELSE IF ~HasFilled(pd.grid)
        THEN [error |-> "TypeError", info |-> << >>, calls |-> 0,
              kernel |-> [missing |-> {}, work |-> NoArray, slices |-> << >>]]
        ELSE [error |-> "none", info |-> pd.info, calls |-> 1,
              kernel |-> KernelEntry(Filled(pd.grid, fill_value), fill_value,
                                     a.initzonal)]

\* fill is entered with grids g and arguments a.
FillEnter(g, a) ==
    \E r \in {FillBody(g, a)} :
        /\ grids' = g
        /\ args' = a
        /\ fgrids' = NoArray
        /\ converged' = << >>
        /\ error' = r.error
        /\ pc' = IF r.error = "none" THEN "relaxing" ELSE "raised"
        /\ info' = r.info
        /\ missing' = r.kernel.missing
        /\ work' = r.kernel.work
        /\ slices' = r.kernel.slices
        /\ kernelCalls' = kernelCalls + r.calls

\* fill(grids, xdim, ydim, eps, relax, itermax, initzonal, cyclic) is called.
\* The arguments a failing call never reads are not enumerated.
FillCall ==
    /\ pc = "idle"
    /\ entry' = "fill"
    /\ \E shp \in GridShapes : \E g \in Arrays(shp) :
       \E xd \in AxisArgs(Len(shp)), yd \in AxisArgs(Len(shp)) :
          IF PrepData(g, xd, yd).error # "none" \/ ~HasFilled(g)
          THEN FillEnter(g, [NoArgs EXCEPT !.xdim = xd, !.ydim = yd])
          ELSE \E e \in EpsValues, rx \in RelaxValues, im \in 1..MaxIter,
                  iz \in BOOLEAN, cy \in BOOLEAN :
                  FillEnter(g, [xdim |-> xd, ydim |-> yd, eps |-> e, relax |-> rx,
                                itermax |-> im, initzonal |-> iz, cyclic |-> cy])
    /\ UNCHANGED <<cubeVars, lay>>

\* The kernel sweeps the first slice that is still RUNNING once.
Sweep ==
    /\ pc = "relaxing"
    /\ \E k \in 1..Len(slices) :
          /\ slices[k].state = "RUNNING"
          /\ \A j \in 1..(k - 1) : slices[j].state # "RUNNING"
          /\ \E sw \in {SweepFrom(work.data, missing, work.shape, k - 1, 0, 0,
                                   args.relax, args.cyclic)} :
                 /\ work' = [work EXCEPT !.data = sw.data]
                 /\ slices' = [slices EXCEPT
                                 ![k] = SliceAfter(@, sw.resmax, args.eps, args.itermax)]
    /\ UNCHANGED <<pc, entry, grids, args, info, missing, kernelCalls, fgrids,
                   converged, error, cubeVars, lay>>

\* The kernel has stopped on every slice: fill recovers the layout, derives
\* the flags and returns.
FillReturn ==
    /\ pc = "relaxing"
    /\ \A k \in 1..Len(slices) : slices[k].state # "RUNNING"
    /\ pc' = "returned"
    /\ fgrids' = RecoverData(work, info)
    /\ converged' = AsTuple([k \in 1..Len(slices) |->
                                Converged(slices[k].resmax, args.eps)], Len(slices))
    /\ UNCHANGED <<entry, grids, args, info, work, missing, slices, kernelCalls,
                   error, cubeVars, lay>>

\* fill_cube(cube, eps, relax, itermax, initzonal, full_output, inplace) is
\* called: it reads the cube's x and y dimensions and circularity and calls
\* fill, without passing relax on.
FillCubeCall ==
    /\ pc = "idle"
    /\ entry' = "fill_cube"
    /\ \E shp \in GridShapes : \E g \in CubeData(shp) :
       \E xd \in 0..(Len(shp) - 1), yd \in 0..(Len(shp) - 1), circ \in BOOLEAN :
       \E e \in EpsValues, rx \in RelaxValues, im \in 1..MaxIter, iz \in BOOLEAN,
          fo \in BOOLEAN, ip \in BOOLEAN :
          /\ xd # yd
          /\ cube' = [data |-> g, xdim |-> xd, ydim |-> yd, circular |-> circ]
          /\ cubeArgs' = [eps |-> e, relax |-> rx, itermax |-> im, initzonal |-> iz,
                          full_output |-> fo, inplace |-> ip]
          /\ source' = g
          /\ FillEnter(g, [xdim |-> xd, ydim |-> yd, eps |-> e,
                           relax |-> RelaxDefault, itermax |-> im,
                           initzonal |-> iz, cyclic |-> circ])
    /\ UNCHANGED <<ret, warnings, lay>>

\* fill has returned to fill_cube: the warning, the cube to return and the
\* return value.
FillCubeReturn ==
    /\ entry = "fill_cube"
    /\ pc = "returned"
    /\ ret = NoReturn
    /\ \E nc \in {NotConverged(converged)},
          rc \in {ReturnedCube(cubeArgs.inplace, fgrids)} :
           /\ warnings' = warnings \o Warnings(nc)
           /\ source' = IF rc.object = "source" THEN rc.data ELSE source
           /\ ret' = ReturnValue(cubeArgs.full_output, rc, nc)
    /\ UNCHANGED <<fillVars, cube, cubeArgs, lay>>

Next ==
    \/ FillCall
    \/ Sweep
    \/ FillReturn

Spec ==
    Init /\ [][Next]_vars

\* Sweep can be taken exactly when fill is relaxing and some slice is still
\* RUNNING: a sweep always counts an iteration, so it always changes vars.
SweepEnabled ==
    pc = "relaxing" /\ \E k \in 1..Len(slices) : slices[k].state = "RUNNING"

\* fill is one synchronous, single-threaded call: the kernel's loop goes on
\* to its next sweep while a slice is RUNNING.  This is WF_vars(Sweep), with
\* ENABLED <<Sweep>>_vars written out as SweepEnabled.
FairSpec ==
    Init /\ [][Next]_vars /\ ([]<>~SweepEnabled \/ []<><<Sweep>>_vars)

CubeNext ==
    \/ FillCubeCall
    \/ Sweep
    \/ FillReturn
    \/ FillCubeReturn

CubeSpec ==
    Init /\ [][CubeNext]_vars

\* ------------------------------------------- the layout transform alone
LayoutInit ==
    /\ pc = "idle"
    /\ entry = "none"
    /\ grids = NoArray
    /\ args = NoArgs
    /\ info = << >>
    /\ work = NoArray
    /\ missing = {}
    /\ slices = << >>
    /\ kernelCalls = 0
    /\ fgrids = NoArray
    /\ converged = << >>
    /\ error = "none"
    /\ cube = NoCube
    /\ cubeArgs = NoCubeArgs
    /\ source = NoArray
    /\ ret = NoReturn
    /\ warnings = << >>
    /\ \E g \in LayoutArrays :
       \E xd \in AxisArgs(Len(g.shape)), yd \in AxisArgs(Len(g.shape)) :
          lay = [NoLayout EXCEPT !.stage = "given", !.grid = g, !.xdim = xd, !.ydim = yd]

\* _prep_data(grid, xdim, ydim) is applied.
LayoutPrep ==
    /\ lay.stage = "given"
    /\ \E r \in {PrepData(lay.grid, lay.xdim, lay.ydim)} :
          lay' = [lay EXCEPT !.stage = IF r.error = "none" THEN "prepared" ELSE "raised",
                             !.prep = IF r.error = "none" THEN r.grid ELSE NoArray,
                             !.info = r.info,
                             !.error = r.error]
    /\ UNCHANGED <<fillVars, cubeVars>>

\* _recover_data(grid, info) is applied to what _prep_data returned.
LayoutRecover ==
    /\ lay.stage = "prepared"
    /\ lay' = [lay EXCEPT !.stage = "recovered", !.rec = RecoverData(lay.prep, lay.info)]
    /\ UNCHANGED <<fillVars, cubeVars>>

LayoutNext ==
    \/ LayoutPrep
    \/ LayoutRecover

LayoutSpec ==
    LayoutInit /\ [][LayoutNext]_vars

\* ---------------------------------------------------------- properties
\* xdim and ydim are distinct axis numbers of g.
ValidDims(g, xd, yd) ==
    /\ xd \in 0..(Len(g.shape) - 1)
    /\ yd \in 0..(Len(g.shape) - 1)
    /\ xd # yd

\* Where element n of an array of shape shp belongs in the kernel's buffer:
\* row = its index along ydim, column = its index along xdim, slice = the
\* row-major position of its other indices.
WorkIndex(shp, xd, yd, n) ==
    LET I == Unravel(n - 1, shp)
        others == SelectSeq(AsTuple([i \in 1..Len(shp) |-> i], Len(shp)),
                            LAMBDA i : i - 1 # xd /\ i - 1 # yd)
        restIdx == AsTuple([j \in 1..Len(others) |-> I[others[j]]], Len(others))
        restShp == AsTuple([j \in 1..Len(others) |-> shp[others[j]]], Len(others))
    IN  Cell(<<shp[yd + 1], shp[xd + 1], Prod(restShp)>>,
             I[yd + 1], I[xd + 1], Ravel(restIdx, restShp))

\* The cells of the caller's grid, and those the kernel treats as missing.
GridCells ==
    1..Len(grids.data)

TreatedMissing ==
    {n \in GridCells : WorkIndex(grids.shape, args.xdim, args.ydim, n) \in missing}

\* The cells of the caller's grid that lie in slice k (1-based) of the buffer.
CellsOfSlice(k) ==
    {n \in GridCells :
        SliceOf(work.shape, WorkIndex(grids.shape, args.xdim, args.ydim, n)) = k - 1}

SliceHasMissing(k) ==
    \E n \in missing : SliceOf(work.shape, n) = k - 1

\* C1: a call of fill with a plain array and valid axes ends in TypeError,
\* with the kernel never invoked, nothing substituted and nothing returned.
C1_NotMaskedRaises ==
    (pc # "idle" /\ ~grids.masked /\ ValidDims(grids, args.xdim, args.ydim))
        => /\ pc = "raised"
           /\ error = "TypeError"
           /\ kernelCalls = 0
           /\ work = NoArray
           /\ fgrids = NoArray
           /\ converged = << >>

C1_Witness ==
    /\ pc = "raised"
    /\ error = "TypeError"
    /\ ~grids.masked
    /\ Len(grids.shape) = 3
    /\ ValidDims(grids, args.xdim, args.ydim)

\* C2: fill raises ValueError exactly when xdim = ydim or one of them lies
\* outside 0..rank-1, and then nothing was substituted and the kernel was not
\* invoked.
C2_InvalidAxis ==
    pc # "idle"
        => /\ (error = "ValueError") <=> ~ValidDims(grids, args.xdim, args.ydim)
           /\ error = "ValueError"
                => /\ pc = "raised"
                   /\ work = NoArray
                   /\ missing = {}
                   /\ kernelCalls = 0
                   /\ fgrids = NoArray

C2_Witness ==
    /\ error = "ValueError"
    /\ grids.masked
    /\ args.xdim = args.ydim
    /\ args.xdim \in 0..(Len(grids.shape) - 1)

\* C3: the flag of a slice is true exactly when its relaxation stopped
\* CONVERGED, with final residual <= eps, and false exactly when it stopped
\* EXHAUSTED, at itermax sweeps with residual > eps; a slice whose residual is
\* <= eps on the sweep that reaches the cap is flagged true.
C3_FlagMatchesStop ==
    pc = "returned"
        => \A k \in 1..Len(slices) :
              /\ converged[k] <=> (slices[k].state = "CONVERGED"
                                   /\ slices[k].resmax <= args.eps)
              /\ ~converged[k] <=> (slices[k].state = "EXHAUSTED"
                                    /\ slices[k].niter = args.itermax
                                    /\ slices[k].resmax > args.eps)
              /\ (slices[k].niter = args.itermax /\ slices[k].resmax <= args.eps)
                    => converged[k]

C3_Witness ==
    /\ pc = "returned"
    /\ \E k \in 1..Len(slices) :
          /\ slices[k].niter = args.itermax
          /\ slices[k].niter > 1
          /\ slices[k].resmax <= args.eps
          /\ converged[k]

\* C4 as stated: every cell not masked in the input keeps its value, and the
\* cells treated as missing are exactly the masked ones.
C4_Original ==
    pc = "returned"
        => /\ \A n \in GridCells : ~grids.mask[n] => fgrids.data[n] = grids.data[n]
           /\ TreatedMissing = {n \in GridCells : grids.mask[n]}

\* C4 as amended: every cell that is neither masked nor holds the value 1.e20
\* keeps its value, the output has the input's shape, and the cells treated as
\* missing are exactly those masked or holding 1.e20.
C4_FrameExceptSentinel ==
    pc = "returned"
        => /\ fgrids.shape = grids.shape
           /\ \A n \in GridCells :
                 (~grids.mask[n] /\ grids.data[n] # fill_value)
                    => fgrids.data[n] = grids.data[n]
           /\ TreatedMissing =
                 {n \in GridCells : grids.mask[n] \/ grids.data[n] = fill_value}

C4_Witness ==
    /\ pc = "returned"
    /\ Len(grids.shape) = 3
    /\ \E n \in GridCells : grids.mask[n] /\ fgrids.data[n] # grids.data[n]
    /\ \E n \in GridCells :
          ~grids.mask[n] /\ grids.data[n] = fill_value /\ fgrids.data[n] # fill_value
    /\ \E n \in GridCells : ~grids.mask[n] /\ fgrids.data[n] = grids.data[n]

\* C5: _recover_data applied to what _prep_data returned gives back the
\* original shape with every element at its original index.
C5_RoundTrip ==
    lay.stage = "recovered"
        => /\ lay.rec.shape = lay.grid.shape
           /\ lay.rec.data = lay.grid.data

C5_Witness ==
    /\ lay.stage = "recovered"
    /\ Len(lay.grid.shape) = 3
    /\ lay.xdim < lay.ydim
    /\ lay.prep.data # lay.grid.data
    /\ lay.rec = lay.grid

C7_ExhaustedStillReturned ==
    \A k \in 1..Len(slices) :
        slices[k].state = "EXHAUSTED"
           => /\ error = "none"
              /\ pc \in {"relaxing", "returned"}
              /\ pc = "returned"
                    => /\ ~converged[k]
                       /\ \A j \in 1..Len(slices) :
                             \/ slices[j].state = "CONVERGED" /\ slices[j].resmax <= args.eps
                             \/ slices[j].state = "EXHAUSTED" /\ slices[j].niter = args.itermax
                       /\ \A n \in GridCells :
                             /\ fgrids.data[n] =
                                   work.data[WorkIndex(grids.shape, args.xdim, args.ydim, n)]
                             /\ fgrids.data[n] # fill_value

C7_Witness ==
    /\ pc = "returned"
    /\ \E k \in 1..Len(slices) :
          /\ slices[k].state = "EXHAUSTED"
          /\ \E n \in CellsOfSlice(k) : grids.mask[n] /\ fgrids.data[n] # 0
    /\ \E j \in 1..Len(slices) : slices[j].state = "CONVERGED" /\ slices[j].niter > 0

\* The flags fill returned that are false.
Failed ==
    {k \in 1..Len(converged) : ~converged[k]}

\* C8: fill_cube warns "did not converge on K out of N slices" exactly when
\* some flag is false, K the number of false flags and N the number of
\* slices; nothing is warned before, and the filled cube is returned all the
\* same.
C8_WarningIffNotConverged ==
    /\ ret = NoReturn => warnings = << >>
    /\ ret # NoReturn
          => /\ Failed # {}
                => warnings = <<[failed |-> Cardinality(Failed), total |-> Len(slices)]>>
             /\ Failed = {} => warnings = << >>
             /\ ret.cube.data = fgrids

C8_Witness ==
    /\ ret # NoReturn
    /\ warnings = <<[failed |-> 1, total |-> 2]>>

\* C9: with full_output fill_cube returns the pair (cube, not_converged),
\* not_converged holding for each slice whether its relaxation did not
\* converge; without it the cube alone.
C9_FullOutput ==
    ret # NoReturn
        => /\ cubeArgs.full_output
              => /\ ret.pair
                 /\ Len(ret.not_converged) = Len(slices)
                 /\ \A k \in 1..Len(slices) : ret.not_converged[k] <=> ~converged[k]
           /\ ~cubeArgs.full_output => (~ret.pair /\ ret.not_converged = << >>)

C9_Witness ==
    /\ ret # NoReturn
    /\ cubeArgs.full_output
    /\ ret.pair
    /\ \E k \in 1..Len(slices) : ret.not_converged[k]
    /\ \E k \in 1..Len(slices) : ~ret.not_converged[k]

\* C10: with inplace the returned cube is the source cube, whose data is now
\* the filled data, without a mask; without inplace it is a copy holding the
\* filled data and the source cube's data and mask are as they were.
C10_Inplace ==
    ret # NoReturn
        => /\ cubeArgs.inplace
              => /\ ret.cube.object = "source"
                 /\ source = fgrids
                 /\ ret.cube.data = source
                 /\ ~source.masked
           /\ ~cubeArgs.inplace
              => /\ ret.cube.object = "copy"
                 /\ ret.cube.data = fgrids
                 /\ ~ret.cube.data.masked
                 /\ source = cube.data

C10_Witness ==
    /\ ret.cube.object = "source"
    /\ cube.data.masked
    /\ \E n \in 1..Len(source.data) : cube.data.mask[n] /\ source.data[n] # cube.data.data[n]

\* C11: the relaxation fill_cube starts runs with the relax, eps, itermax and
\* initzonal the caller passed to fill_cube.  fill_cube leaves relax out of
\* its call of fill, so a caller's relax other than 0.6 is not the one the
\* sweeps use.
C11_RelaxPassedOn ==
    (entry = "fill_cube" /\ pc \in {"relaxing", "returned"}) =>
        /\ args.relax = cubeArgs.relax
        /\ args.eps = cubeArgs.eps
        /\ args.itermax = cubeArgs.itermax
        /\ args.initzonal = cubeArgs.initzonal

\* The values the buffer holds in slice k (1-based).
SliceData(k) ==
    [n \in {m \in 1..Len(work.data) : SliceOf(work.shape, m) = k - 1} |->
        work.data[n]]

\* Where the relaxation of slice k stands, given its record.
C12_Stopped(k) ==
    slices[k].state \in {"CONVERGED", "EXHAUSTED"}

C12_Records ==
    pc \in {"relaxing", "returned"}
        => \A k \in 1..Len(slices) :
              /\ slices[k].state \in {"RUNNING", "CONVERGED", "EXHAUSTED"}
              /\ slices[k].niter \in 0..args.itermax
              /\ ~SliceHasMissing(k)
                    => /\ slices[k].state = "CONVERGED"
                       /\ slices[k].niter = 0
                       /\ slices[k].resmax = 0
              /\ SliceHasMissing(k)
                    => /\ slices[k].niter = 0 => slices[k].state = "RUNNING"
                       /\ slices[k].state = "RUNNING"
                             => /\ slices[k].niter < args.itermax
                                /\ slices[k].niter > 0 => slices[k].resmax > args.eps
                       /\ slices[k].state = "CONVERGED"
                             => /\ slices[k].niter >= 1
                                /\ slices[k].resmax <= args.eps
                       /\ slices[k].state = "EXHAUSTED"
                             => /\ slices[k].niter = args.itermax
                                /\ slices[k].resmax > args.eps

\* What a step may do to slice k: nothing once it has stopped; otherwise one
\* sweep, which counts one iteration and applies the stopping rule.
C12_Step ==
    /\ (pc = "idle" /\ pc' = "relaxing")
          => \A k \in 1..Len(slices') : slices'[k].niter = 0
    /\ pc = "relaxing"
          => /\ Len(slices') = Len(slices)
             /\ \A k \in 1..Len(slices) :
                   /\ C12_Stopped(k)
                         => slices'[k] = slices[k] /\ SliceData(k)' = SliceData(k)
                   /\ (slices'[k] # slices[k] \/ SliceData(k)' # SliceData(k))
                         => /\ slices[k].state = "RUNNING"
                            /\ slices'[k].niter = slices[k].niter + 1
                            /\ slices'[k].state =
                                  IF slices'[k].resmax <= args.eps THEN "CONVERGED"
                                  ELSE IF slices'[k].niter = args.itermax
                                       THEN "EXHAUSTED"
                                  ELSE "RUNNING"

RestShape(shp, xd, yd) ==
    LET others == SelectSeq(AsTuple([i \in 1..Len(shp) |-> i], Len(shp)),
                            LAMBDA i : i - 1 # xd /\ i - 1 # yd)
    IN  AsTuple([j \in 1..Len(others) |-> shp[others[j]]], Len(others))

\* C13: for distinct in-range xdim and ydim, in either order, _prep_data
\* succeeds and yields a rank-3 array of shape (size of ydim, size of xdim,
\* product of the other sizes) in which the element at index I of the
\* original sits at row I[ydim], column I[xdim] and at the batch position
\* that is the row-major position of I's other indices in original order.
C13_PrepLayout ==
    /\ (lay.stage # "given" /\ ValidDims(lay.grid, lay.xdim, lay.ydim))
          => lay.stage \in {"prepared", "recovered"}
    /\ lay.stage \in {"prepared", "recovered"}
          => /\ ValidDims(lay.grid, lay.xdim, lay.ydim)
             /\ lay.prep.shape =
                   <<lay.grid.shape[lay.ydim + 1], lay.grid.shape[lay.xdim + 1],
                     Prod(RestShape(lay.grid.shape, lay.xdim, lay.ydim))>>
             /\ Len(lay.prep.data) = Len(lay.grid.data)
             /\ \A n \in 1..Len(lay.grid.data) :
                   lay.prep.data[WorkIndex(lay.grid.shape, lay.xdim, lay.ydim, n)]
                      = lay.grid.data[n]

C13_Witness ==
    /\ lay.stage = "prepared"
    /\ Len(lay.grid.shape) = 4
    /\ lay.ydim < lay.xdim
    /\ \A j \in 1..2 : RestShape(lay.grid.shape, lay.xdim, lay.ydim)[j] > 1
    /\ lay.prep.shape[3] = 4
    /\ lay.prep.data # lay.grid.data

=============================================================================
